---- MODULE Spec2Model ----
(***************************************************************************)
(* Slot-template planning and publishing of GrowerSlot                     *)
(* (app/backend/services/templates.py): plan_slots, diff_against_db,       *)
(* publish_plan, the slots table they work on, and the handler that calls  *)
(* them (app/backend/routers/slots.py, apply_template_preview).            *)
(*                                                                         *)
(* Dates are days of August 2025 (the month the repository's tests use);   *)
(* a date value is the day of the month, its ISO string the tuple          *)
(* <<2025, 8, d>>.  A time value is seconds since midnight, its '%H:%M'    *)
(* string the tuple <<hours, minutes>>.                                    *)
(***************************************************************************)
EXTENDS Integers, Sequences, FiniteSets, TLC

VARIABLES
    slots,        \* the committed rows of table slots
    nextId,       \* the next identifier gen_random_uuid() hands out
    uniqueIndex,  \* which unique index the store enforces on slots
    pc,           \* per publisher: where publish_plan stands
    call,         \* per publisher: tenant_id, plan and the loop's locals
    ins,          \* per publisher: rows its open transaction inserted
    upd,          \* per publisher: new versions of rows its transaction updated
    last,         \* the call that returned or raised last
    slots0,       \* the table as it was initially
    template,     \* plan_slots: the template configuration
    start_date,   \* plan_slots: first date of the range
    end_date,     \* plan_slots: last date of the range
    current_date, \* plan_slots: the outer loop's date
    current_time, \* plan_slots: the inner loop's datetime, in seconds since
                  \* 2025-08-00 00:00
    desired_slots,\* plan_slots: the list built so far
    ppc,          \* plan_slots: where it stands
    dpc,          \* diff_against_db: where it stands
    dcall,        \* diff_against_db: arguments, locals and what it touched
    request,      \* apply_template_preview: the request and its outcome
    bookings,     \* the committed rows of table bookings
    domain_events,\* the committed rows of table domain_events
    slot_lock,    \* who holds the FOR UPDATE lock on which row of slots
    bpc,          \* per create_booking request: where it stands
    bcall         \* per create_booking request: its body, user and locals

pubVars == <<slots, nextId, uniqueIndex, pc, call, ins, upd, last, slots0>>
planVars ==
    <<template, start_date, end_date, current_date, current_time, desired_slots, ppc>>
diffVars == <<dpc, dcall, request>>
bookVars == <<bookings, domain_events, slot_lock, bpc, bcall>>

(***************************************************************************)
(* Bounds                                                                  *)
(***************************************************************************)
MaxPlanLen == 2
MaxInserts == 3

(***************************************************************************)
(* Wire formats (spec section 6; templates.py lines 101-103, 153-155)      *)
(***************************************************************************)
IsoFormat(d) == <<2025, 8, d>>
ParseDate(iso) == iso[3]
\* A time of day is its seconds since midnight; strftime('%H:%M') drops the
\* seconds, strptime(..., '%H:%M') gives none.
Clock(h, m, s) == h * 3600 + m * 60 + s
StrfTime(t) == <<t \div 3600, (t % 3600) \div 60>>
ParseTime(hm) == Clock(hm[1], hm[2], 0)

(***************************************************************************)
(* Input universes                                                         *)
(***************************************************************************)
Tenants == {"t1", "t2"}
Publishers == {1, 2}
NULL == "NULL"

PubDates == {18}
PubWindow1 == <<Clock(9, 0, 0), Clock(9, 30, 0)>>
PubWindow2 == <<Clock(10, 0, 0), Clock(10, 30, 0)>>
PubWindows == {PubWindow1, PubWindow2}
PubFields ==
    { [capacity |-> 10, resource_unit |-> "tons", blackout |-> FALSE, notes |-> ""],
      [capacity |-> 15, resource_unit |-> "tons", blackout |-> FALSE, notes |-> "n"] }

DesiredSlot(d, w, f) ==
    [date |-> IsoFormat(d), start_time |-> StrfTime(w[1]), end_time |-> StrfTime(w[2]),
     capacity |-> f.capacity, resource_unit |-> f.resource_unit,
     notes |-> f.notes, blackout |-> f.blackout]

PubSlots == {DesiredSlot(d, w, f) : d \in PubDates, w \in PubWindows, f \in PubFields}

RECURSIVE SeqsUpTo(_, _)
SeqsUpTo(S, n) ==
    IF n = 0 THEN {<<>>}
    ELSE LET shorter == SeqsUpTo(S, n - 1)
         IN shorter \cup {Append(q, x) : q \in {r \in shorter : Len(r) = n - 1}, x \in S}

Plans == SeqsUpTo(PubSlots, MaxPlanLen)

Row(id, t, d, w, cap, unit, bl, notes) ==
    [id |-> id, tenant_id |-> t, date |-> d, start_time |-> w[1], end_time |-> w[2],
     capacity |-> cap, resource_unit |-> unit, blackout |-> bl, notes |-> notes]

InitStores ==
    { {},
      {Row(1, "t1", 18, PubWindow1, 10, "tons", FALSE, "")},
      {Row(1, "t1", 18, PubWindow1, 20, "kg", TRUE, NULL),
       Row(2, "t2", 18, PubWindow1, 10, "tons", FALSE, "")},
      {Row(1, "t1", 18, PubWindow1, 10, "tons", FALSE, ""),
       Row(2, "t1", 18, PubWindow1, 20, "tons", FALSE, NULL)} }

\* A table whose row bulk_create_slots made from start_time 09:00:30 and
\* slot_duration 1 (routers/slots.py lines 91-109: the time is stored with
\* the seconds it was sent with).
BulkMadeStore ==
    {Row(1, "t1", 18, <<Clock(9, 0, 30), Clock(10, 0, 30)>>, 10, "tons", FALSE, NULL)}

UniqueIndexes == {"none", "tenant_date_start", "natural_key"}

(***************************************************************************)
(* The store: rows, keys, what a statement sees                            *)
(***************************************************************************)
Ids(rows) == {r.id : r \in rows}

NaturalKey(r) == <<r.tenant_id, r.date, r.start_time, r.end_time>>

UniqueKeys(rows) ==
    \A r1, r2 \in rows : NaturalKey(r1) = NaturalKey(r2) => r1 = r2

\* What a statement of publisher p's transaction sees: the rows committed so
\* far, with the transaction's own updates and inserts on top.
View(p) == {r \in slots : r.id \notin Ids(upd[p])} \cup upd[p] \cup ins[p]

Active(q) == pc[q] \in {"update", "insert", "commit"}

NextFree(rows) ==
    IF rows = {} THEN 1 ELSE (CHOOSE m \in Ids(rows) : \A x \in Ids(rows) : x <= m) + 1

\* Variant: the table has no unique index.
IndexKeyNoIndex(r) == <<r.id>>

\* The columns of the unique index the store enforces, if any.  The index
\* on (tenant_id, date, start_time) is the one the ON CONFLICT target of
\* bulk_create_slots names.
IndexKey(r) ==
    CASE uniqueIndex = "tenant_date_start" -> <<r.tenant_id, r.date, r.start_time>>
      [] uniqueIndex = "natural_key" -> NaturalKey(r)
      [] OTHER -> <<r.id>>

IndexConflict(new, rows) == \E r \in rows : IndexKey(r) = IndexKey(new)

(***************************************************************************)
(* plan_slots (templates.py lines 10-114)                                  *)
(***************************************************************************)
EmptyDict == <<>>
NoDate == <<>>

\* dict.get(key, default)
Get(d, key, default) == IF key \in DOMAIN d THEN d[key] ELSE default

\* current_date.strftime('%a').lower(); 2025-08-18 is a Monday
WeekdayName(d) ==
    <<"mon", "tue", "wed", "thu", "fri", "sat", "sun">>[((d + 3) % 7) + 1]

\* datetime.combine(date, time), datetime.time(), timedelta(minutes=n)
Combine(d, t) == d * 86400 + t
TimeOf(dt) == dt % 86400

\* Variant: the first entry of the date ends the scan, whatever its type.
RECURSIVE ScanExceptionsStopsAtDate(_, _, _)
ScanExceptionsStopsAtDate(exceptions, d, k) ==
    IF k > Len(exceptions)
    THEN [is_blackout_day |-> FALSE, day_overrides |-> EmptyDict]
    ELSE LET exception == exceptions[k]
         IN IF Get(exception, "date", NoDate) = IsoFormat(d)
            THEN IF Get(exception, "type", NULL) = "blackout"
                 THEN [is_blackout_day |-> TRUE, day_overrides |-> EmptyDict]
                 ELSE IF Get(exception, "type", NULL) = "override"
                      THEN [is_blackout_day |-> FALSE, day_overrides |-> exception]
                      ELSE [is_blackout_day |-> FALSE, day_overrides |-> EmptyDict]
            ELSE ScanExceptionsStopsAtDate(exceptions, d, k + 1)

\* The scan of the exceptions list for one date (lines 47-57): the first
\* entry of that date that is a blackout or an override ends the scan.
RECURSIVE ScanExceptions(_, _, _)
ScanExceptions(exceptions, d, k) ==
    IF k > Len(exceptions)
    THEN [is_blackout_day |-> FALSE, day_overrides |-> EmptyDict]
    ELSE LET exception == exceptions[k]
         IN IF Get(exception, "date", NoDate) = IsoFormat(d)
            THEN IF Get(exception, "type", NULL) = "blackout"
                 THEN [is_blackout_day |-> TRUE, day_overrides |-> EmptyDict]
                 ELSE IF Get(exception, "type", NULL) = "override"
                      THEN [is_blackout_day |-> FALSE, day_overrides |-> exception]
                      ELSE ScanExceptions(exceptions, d, k + 1)
            ELSE ScanExceptions(exceptions, d, k + 1)

IsBlackoutDay(tpl, d) ==
    ScanExceptions(Get(tpl, "exceptions", <<>>), d, 1).is_blackout_day

\* day_config (lines 64-71)
DayConfig(tpl, d) ==
    LET day_overrides == ScanExceptions(Get(tpl, "exceptions", <<>>), d, 1).day_overrides
    IN IF DOMAIN day_overrides # {}
       THEN day_overrides
       ELSE Get(Get(tpl, "weekdays", EmptyDict), WeekdayName(d), EmptyDict)

\* if not day_config or not day_config.get('enabled', True)  (line 74)
NoSlotsThatDay(day_config) ==
    DOMAIN day_config = {} \/ ~Get(day_config, "enabled", TRUE)

\* lines 79-87
DayStart(day_config) == ParseTime(Get(day_config, "start_time", <<8, 0>>))
DayEnd(day_config) == ParseTime(Get(day_config, "end_time", <<17, 0>>))

\* slot_end_time = current_time + timedelta(minutes=slot_length_min)
SlotEnd(tpl, dt) == dt + 60 * Get(tpl, "slot_length_min", 30)

\* Variant: the date is not advanced.
NextDateStuck(d) == d

\* current_date += timedelta(days=1)
NextDate(d) == d + 1

\* Variant: the slot is dated one day late.
PlannedSlotNextDay(tpl, d, day_config, dt) ==
    [date |-> IsoFormat(d + 1),
     start_time |-> StrfTime(TimeOf(dt)),
     end_time |-> StrfTime(TimeOf(SlotEnd(tpl, dt))),
     capacity |-> Get(day_config, "capacity", Get(tpl, "default_capacity", 10)),
     resource_unit |-> Get(day_config, "resource_unit",
                           Get(tpl, "default_resource_unit", "tons")),
     notes |-> Get(day_config, "notes", Get(tpl, "default_notes", "")),
     blackout |-> FALSE]

\* Variant: the template defaults are used whatever the day-schedule sets.
PlannedSlotDefaultsOnly(tpl, d, day_config, dt) ==
    [date |-> IsoFormat(d),
     start_time |-> StrfTime(TimeOf(dt)),
     end_time |-> StrfTime(TimeOf(SlotEnd(tpl, dt))),
     capacity |-> Get(tpl, "default_capacity", 10),
     resource_unit |-> Get(tpl, "default_resource_unit", "tons"),
     notes |-> Get(tpl, "default_notes", ""),
     blackout |-> FALSE]

\* The dict appended to desired_slots (lines 100-108)
PlannedSlot(tpl, d, day_config, dt) ==
    [date |-> IsoFormat(d),
     start_time |-> StrfTime(TimeOf(dt)),
     end_time |-> StrfTime(TimeOf(SlotEnd(tpl, dt))),
     capacity |-> Get(day_config, "capacity", Get(tpl, "default_capacity", 10)),
     resource_unit |-> Get(day_config, "resource_unit",
                           Get(tpl, "default_resource_unit", "tons")),
     notes |-> Get(day_config, "notes", Get(tpl, "default_notes", "")),
     blackout |-> FALSE]

\* while current_time < end_datetime, and no break at line 97
InnerLoopGoesOn(tpl, d, day_config, dt) ==
    /\ dt < Combine(d, DayEnd(day_config))
    /\ ~(TimeOf(SlotEnd(tpl, dt)) > DayEnd(day_config))

\* plan_slots as a function of its arguments: the slots of one date from
\* datetime dt on (lines 93-110), and the list for the dates d..last
\* (lines 44-114).
RECURSIVE DaySlots(_, _, _, _)
DaySlots(tpl, d, day_config, dt) ==
    IF InnerLoopGoesOn(tpl, d, day_config, dt)
    THEN <<PlannedSlot(tpl, d, day_config, dt)>>
         \o DaySlots(tpl, d, day_config, SlotEnd(tpl, dt))
    ELSE <<>>

RECURSIVE PlanSlotsFrom(_, _, _)
PlanSlotsFrom(tpl, d, last_date) ==
    IF d > last_date THEN <<>>
    ELSE LET day_config == DayConfig(tpl, d)
             of_day == IF IsBlackoutDay(tpl, d) \/ NoSlotsThatDay(day_config)
                       THEN <<>>
                       ELSE DaySlots(tpl, d, day_config, Combine(d, DayStart(day_config)))
         IN of_day \o PlanSlotsFrom(tpl, d + 1, last_date)

\* lines 59-62
PlanSkipBlackout ==
    /\ ppc = "date_loop"
    /\ current_date <= end_date
    /\ IsBlackoutDay(template, current_date)
    /\ current_date' = NextDate(current_date)
    /\ UNCHANGED <<template, start_date, end_date, current_time, desired_slots, ppc>>
    /\ UNCHANGED <<bookVars, pubVars, diffVars>>

\* lines 73-76
PlanSkipDay ==
    /\ ppc = "date_loop"
    /\ current_date <= end_date
    /\ ~IsBlackoutDay(template, current_date)
    /\ NoSlotsThatDay(DayConfig(template, current_date))
    /\ current_date' = NextDate(current_date)
    /\ UNCHANGED <<template, start_date, end_date, current_time, desired_slots, ppc>>
    /\ UNCHANGED <<bookVars, pubVars, diffVars>>

\* lines 78-91
PlanStartDay ==
    /\ ppc = "date_loop"
    /\ current_date <= end_date
    /\ ~IsBlackoutDay(template, current_date)
    /\ ~NoSlotsThatDay(DayConfig(template, current_date))
    /\ current_time' = Combine(current_date, DayStart(DayConfig(template, current_date)))
    /\ ppc' = "time_loop"
    /\ UNCHANGED <<template, start_date, end_date, current_date, desired_slots>>
    /\ UNCHANGED <<bookVars, pubVars, diffVars>>

\* lines 93-110
PlanEmitSlot ==
    /\ ppc = "time_loop"
    /\ LET day_config == DayConfig(template, current_date)
       IN /\ InnerLoopGoesOn(template, current_date, day_config, current_time)
          /\ desired_slots' =
                Append(desired_slots,
                       PlannedSlot(template, current_date, day_config, current_time))
          /\ current_time' = SlotEnd(template, current_time)
    /\ UNCHANGED <<template, start_date, end_date, current_date, ppc>>
    /\ UNCHANGED <<bookVars, pubVars, diffVars>>

\* the inner loop ends (line 93 or 98), line 112
PlanEndDay ==
    /\ ppc = "time_loop"
    /\ ~InnerLoopGoesOn(template, current_date,
                        DayConfig(template, current_date), current_time)
    /\ current_date' = NextDate(current_date)
    /\ ppc' = "date_loop"
    /\ UNCHANGED <<template, start_date, end_date, current_time, desired_slots>>
    /\ UNCHANGED <<bookVars, pubVars, diffVars>>

\* the outer loop ends (line 45), line 114
PlanReturn ==
    /\ ppc = "date_loop"
    /\ current_date > end_date
    /\ ppc' = "done"
    /\ UNCHANGED <<template, start_date, end_date, current_date, current_time,
                   desired_slots>>
    /\ UNCHANGED <<bookVars, pubVars, diffVars>>

\* plan_slots is not running.
PlanOff ==
    /\ template = EmptyDict
    /\ start_date = 0
    /\ end_date = 0
    /\ current_date = 0
    /\ current_time = 0
    /\ desired_slots = <<>>
    /\ ppc = "off"

(***************************************************************************)
(* publish_plan (templates.py lines 207-284)                               *)
(***************************************************************************)
NoCounts == [created |-> -1, updated |-> -1, skipped |-> -1]

NoCall ==
    [tenant_id |-> "t1", plan |-> <<>>, i |-> 0, created_count |-> 0,
     updated_count |-> 0, before |-> {}, repeat |-> FALSE]

NoLast ==
    [outcome |-> "none", tenant_id |-> "t1", plan |-> <<>>, result |-> NoCounts,
     before |-> {}, repeat |-> FALSE, acquired |-> FALSE, at |-> 0, wrote |-> FALSE]

\* Variant: no early return for the empty plan.
EarlyReturnNever(plan) == FALSE

\* if not plan: return zeros
EarlyReturn(plan) == plan = <<>>

\* Variant: end_time compared with $3, the start time.
KeyMatchesStartBoundTwice(r, tenant_id, slot) ==
    /\ r.tenant_id = tenant_id
    /\ r.date = ParseDate(slot.date)
    /\ r.start_time = ParseTime(slot.start_time)
    /\ r.end_time = ParseTime(slot.start_time)

\* Variant: the WHERE clause leaves tenant_id out.
KeyMatchesAnyTenant(r, tenant_id, slot) ==
    /\ r.date = ParseDate(slot.date)
    /\ r.start_time = ParseTime(slot.start_time)
    /\ r.end_time = ParseTime(slot.end_time)

\* Variant: the WHERE clause leaves end_time out.
KeyMatchesAnyEnd(r, tenant_id, slot) ==
    /\ r.tenant_id = tenant_id
    /\ r.date = ParseDate(slot.date)
    /\ r.start_time = ParseTime(slot.start_time)

\* WHERE tenant_id = $1 AND date = $2 AND start_time = $3 AND end_time = $4
KeyMatches(r, tenant_id, slot) ==
    /\ r.tenant_id = tenant_id
    /\ r.date = ParseDate(slot.date)
    /\ r.start_time = ParseTime(slot.start_time)
    /\ r.end_time = ParseTime(slot.end_time)

\* Variant: the UPDATE does not see the transaction's own writes.
MatchedCommittedOnly(p, tenant_id, slot) ==
    {r \in slots : KeyMatches(r, tenant_id, slot)}

\* Variant: the UPDATE touches one matching row only.
MatchedOneOnly(p, tenant_id, slot) ==
    LET all == {r \in View(p) : KeyMatches(r, tenant_id, slot)}
    IN IF all = {} THEN {} ELSE {CHOOSE r \in all : \A x \in all : r.id <= x.id}

\* The rows the UPDATE of publisher p's transaction finds for a slot.
Matched(p, tenant_id, slot) == {r \in View(p) : KeyMatches(r, tenant_id, slot)}

\* SET capacity = $5, resource_unit = $6, blackout = $7, notes = $8
SetFields(r, slot) ==
    [r EXCEPT !.capacity = slot.capacity, !.resource_unit = slot.resource_unit,
              !.blackout = slot.blackout, !.notes = slot.notes]

\* rows_updated = int(update_result.split()[-1])
RowsUpdated(matched) == Cardinality(matched)

\* Variant: start_time and end_time bound in the wrong order.
NewRowTimesSwapped(id, tenant_id, slot) ==
    [id |-> id, tenant_id |-> tenant_id, date |-> ParseDate(slot.date),
     start_time |-> ParseTime(slot.end_time), end_time |-> ParseTime(slot.start_time),
     capacity |-> slot.capacity, resource_unit |-> slot.resource_unit,
     blackout |-> slot.blackout, notes |-> slot.notes]

\* INSERT INTO slots (...) VALUES (gen_random_uuid(), $1, ..., $8)
NewRow(id, tenant_id, slot) ==
    [id |-> id, tenant_id |-> tenant_id, date |-> ParseDate(slot.date),
     start_time |-> ParseTime(slot.start_time), end_time |-> ParseTime(slot.end_time),
     capacity |-> slot.capacity, resource_unit |-> slot.resource_unit,
     blackout |-> slot.blackout, notes |-> slot.notes]

\* Variant: updated_count left out of the difference.
SkippedCountIgnoresUpdated(total_planned, created_count, updated_count) ==
    total_planned - created_count

\* skipped_count = total_planned - (created_count + updated_count)
SkippedCount(total_planned, created_count, updated_count) ==
    total_planned - (created_count + updated_count)

Counts(c) ==
    [created |-> c.created_count, updated |-> c.updated_count,
     skipped |-> SkippedCount(Len(c.plan), c.created_count, c.updated_count)]

\* Variants: the commit keeps only the rows the call wrote; statements are
\* not undone when the call fails.
CommittedReplacesTable(p) == upd[p] \cup ins[p]
RolledBackKeepsWrites(p) == View(p)

\* What the table holds once publisher p's transaction has ended.
CommittedBy(p) == View(p)
RolledBackBy(p) == slots

\* The loop's next position after slot i is done.
Advance(c) == IF c.i < Len(c.plan) THEN "update" ELSE "commit"

\* A row lock: another open transaction has updated one of these rows.
RowLocked(p, rows) ==
    \E q \in Publishers \ {p} : Active(q) /\ Ids(upd[q]) \cap Ids(rows) # {}

\* Another open transaction has inserted a row with the same index key.
InsertWaits(p, new) ==
    \E q \in Publishers \ {p} : Active(q) /\ IndexConflict(new, ins[q])

\* The slots the open calls have still to process, each of which may draw
\* an identifier (keeps nextId within the callers' budget).
Reserved ==
    LET left(q) == IF Active(q) THEN Len(call[q].plan) - call[q].created_count
                                     - call[q].updated_count
                   ELSE 0
    IN left(1) + left(2)

\* publish_plan(tenant_id, []) : lines 223-224
PublishEmpty(p, calls) ==
    /\ pc[p] = "idle"
    /\ \E t \in Tenants, plan \in {c[2] : c \in calls} :
        /\ <<t, plan>> \in calls
        /\ EarlyReturn(plan)
        /\ last' = [outcome |-> "returned", tenant_id |-> t, plan |-> plan,
                    result |-> [created |-> 0, updated |-> 0, skipped |-> 0],
                    before |-> slots,
                    repeat |-> (last.outcome = "returned" /\ last.tenant_id = t
                                /\ last.plan = plan),
                    acquired |-> FALSE, at |-> 0, wrote |-> FALSE]
    /\ UNCHANGED <<slots, nextId, uniqueIndex, pc, call, ins, upd, slots0, planVars, diffVars, bookVars>>

\* publish_plan(tenant_id, plan): acquire a connection, open the transaction
\* (lines 226-230)
Begin(p, calls, budget) ==
    /\ pc[p] = "idle"
    /\ \E t \in Tenants, plan \in {c[2] : c \in calls} :
        /\ <<t, plan>> \in calls
        /\ ~EarlyReturn(plan)
        /\ (nextId - NextFree(slots0)) + Reserved + Len(plan) <= budget
        /\ call' = [call EXCEPT ![p] =
                      [tenant_id |-> t, plan |-> plan, i |-> 1, created_count |-> 0,
                       updated_count |-> 0, before |-> slots,
                       repeat |-> (last.outcome = "returned" /\ last.tenant_id = t
                                   /\ last.plan = plan)]]
        /\ pc' = [pc EXCEPT ![p] = IF Len(plan) = 0 THEN "commit" ELSE "update"]
    /\ last' = NoLast
    /\ UNCHANGED <<slots, nextId, uniqueIndex, ins, upd, slots0, planVars, diffVars, bookVars>>

\* The UPDATE for slot i (lines 233-254, 273-274)
UpdateStmt(p) ==
    /\ pc[p] = "update"
    /\ LET c == call[p]
           slot == c.plan[c.i]
           matched == Matched(p, c.tenant_id, slot)
       IN /\ ~RowLocked(p, matched)
          /\ upd' = [upd EXCEPT ![p] =
                       {r \in upd[p] : r \notin matched}
                       \cup {SetFields(r, slot) : r \in matched \ ins[p]}]
          /\ ins' = [ins EXCEPT ![p] =
                       (ins[p] \ matched) \cup {SetFields(r, slot) : r \in matched \cap ins[p]}]
          /\ IF RowsUpdated(matched) = 0
             THEN /\ pc' = [pc EXCEPT ![p] = "insert"]
                  /\ call' = call
             ELSE /\ pc' = [pc EXCEPT ![p] = Advance(c)]
                  /\ call' = [call EXCEPT ![p].updated_count = c.updated_count + 1,
                                          ![p].i = c.i + 1]
    /\ UNCHANGED <<slots, nextId, uniqueIndex, last, slots0, planVars, diffVars, bookVars>>

\* The INSERT for slot i (lines 255-272)
InsertStmt(p) ==
    /\ pc[p] = "insert"
    /\ LET c == call[p]
           new == NewRow(nextId, c.tenant_id, c.plan[c.i])
       IN /\ ~InsertWaits(p, new)
          /\ ~IndexConflict(new, View(p))
          /\ ins' = [ins EXCEPT ![p] = ins[p] \cup {new}]
          /\ nextId' = nextId + 1
          /\ pc' = [pc EXCEPT ![p] = Advance(c)]
          /\ call' = [call EXCEPT ![p].created_count = c.created_count + 1,
                                  ![p].i = c.i + 1]
    /\ UNCHANGED <<slots, uniqueIndex, upd, last, slots0, planVars, diffVars, bookVars>>

\* In the next two actions `then' is where the caller goes on: "idle" to
\* call again, "ended" when it makes no further call.

\* conn.execute raises (a store failure, a unique violation, a deadlock
\* abort): the exception leaves the transaction block, which rolls back,
\* and reaches the caller (lines 229-230).
StmtFails(p, then) ==
    /\ pc[p] \in {"update", "insert"}
    /\ slots' = RolledBackBy(p)
    /\ ins' = [ins EXCEPT ![p] = {}]
    /\ upd' = [upd EXCEPT ![p] = {}]
    /\ last' = [outcome |-> "raised", tenant_id |-> call[p].tenant_id,
                plan |-> call[p].plan, result |-> NoCounts,
                before |-> call[p].before, repeat |-> call[p].repeat,
                acquired |-> TRUE, at |-> call[p].i,
                wrote |-> (ins[p] \cup upd[p] # {})]
    /\ pc' = [pc EXCEPT ![p] = then]
    /\ call' = [call EXCEPT ![p] = NoCall]
    /\ UNCHANGED <<nextId, uniqueIndex, slots0, planVars, diffVars, bookVars>>

\* The transaction block is left normally: commit, then return the counts
\* (lines 276-284)
Commit(p, then) ==
    /\ pc[p] = "commit"
    /\ slots' = CommittedBy(p)
    /\ ins' = [ins EXCEPT ![p] = {}]
    /\ upd' = [upd EXCEPT ![p] = {}]
    /\ last' = [outcome |-> "returned", tenant_id |-> call[p].tenant_id,
                plan |-> call[p].plan, result |-> Counts(call[p]),
                before |-> call[p].before, repeat |-> call[p].repeat,
                acquired |-> TRUE, at |-> 0, wrote |-> (ins[p] \cup upd[p] # {})]
    /\ pc' = [pc EXCEPT ![p] = then]
    /\ call' = [call EXCEPT ![p] = NoCall]
    /\ UNCHANGED <<nextId, uniqueIndex, slots0, planVars, diffVars, bookVars>>

(***************************************************************************)
(* diff_against_db (templates.py lines 117-204)                            *)
(***************************************************************************)
NoDiff ==
    [tenant_id |-> "t1", desired |-> <<>>, existing_slots |-> {}, i |-> 0,
     create_list |-> <<>>, update_list |-> <<>>, skip_list |-> <<>>,
     acquired |-> FALSE, reads |-> 0, before |-> {}]

\* ApplyTemplateResult.samples by default (schemas.py line 169)
NoSamples == [create |-> <<>>, update |-> <<>>, skip |-> <<>>]

\* template_rows is what the query for the template returned: no row, or
\* one row, of which the config is kept.
NoRequest ==
    [tenant_id |-> "t1", role |-> "admin", mode |-> "preview", template_rows |-> <<>>,
     start_date |-> NoDate, end_date |-> NoDate, at |-> "off", result |-> NoCounts,
     samples |-> NoSamples]

\* diff_against_db is not running and no request is being served.
DiffOff ==
    /\ dpc = "off"
    /\ dcall = NoDiff
    /\ request = NoRequest

\* Variant: no early return for the empty list.
DiffEarlyReturnNever(desired) == FALSE

\* if not desired: return three empty lists (lines 133-134)
DiffEarlyReturn(desired) == desired = <<>>

\* The order of ISO date strings, as min() and max() compare them.
IsoLeq(a, b) ==
    \/ a[1] < b[1]
    \/ a[1] = b[1] /\ a[2] < b[2]
    \/ a[1] = b[1] /\ a[2] = b[2] /\ a[3] <= b[3]

\* start_date = min(dates), end_date = max(dates)  (lines 137-139): the
\* set holding the least, and the greatest, date string of the list.
MinDates(desired) ==
    {desired[j].date : j \in {j \in 1..Len(desired) :
        \A k \in 1..Len(desired) : IsoLeq(desired[j].date, desired[k].date)}}
MaxDates(desired) ==
    {desired[j].date : j \in {j \in 1..Len(desired) :
        \A k \in 1..Len(desired) : IsoLeq(desired[k].date, desired[j].date)}}

\* Variant: the SELECT without the tenant filter.
FetchedRowsAnyTenant(rows, tenant_id, desired) ==
    {r \in rows :
        \E lo \in MinDates(desired), hi \in MaxDates(desired) :
           ParseDate(lo) <= r.date /\ r.date <= ParseDate(hi)}

\* SELECT ... FROM slots WHERE tenant_id = $1 AND date BETWEEN $2 AND $3
FetchedRows(rows, tenant_id, desired) ==
    {r \in rows :
        /\ r.tenant_id = tenant_id
        /\ \E lo \in MinDates(desired), hi \in MaxDates(desired) :
              ParseDate(lo) <= r.date /\ r.date <= ParseDate(hi)}

\* Variant: the stored notes are taken as they are.
NotesOrEmptyAsStored(notes) == notes

\* row['notes'] or ''  (line 165)
NotesOrEmpty(notes) == IF notes = NULL \/ notes = "" THEN "" ELSE notes

\* The lookup entry built from a fetched row (lines 152-166)
ExistingSlot(row) ==
    [id |-> row.id, date |-> IsoFormat(row.date),
     start_time |-> StrfTime(row.start_time), end_time |-> StrfTime(row.end_time),
     capacity |-> row.capacity, resource_unit |-> row.resource_unit,
     blackout |-> row.blackout, notes |-> NotesOrEmpty(row.notes)]

\* key = (date, start_time, end_time)  (lines 152-156, 174-178)
LookupKey(x) == <<x.date, x.start_time, x.end_time>>

\* The lookups the loop of lines 151-166 can build: one entry for each key,
\* that of the row fetched last with the key (the SELECT has no ORDER BY).
Lookups(fetched) ==
    {{ExistingSlot(r) : r \in chosen} :
        chosen \in {c \in SUBSET fetched :
                      \A r \in fetched :
                         Cardinality({x \in c : LookupKey(ExistingSlot(x))
                                                = LookupKey(ExistingSlot(r))}) = 1}}

\* needs_update (lines 184-189)
NeedsUpdate(existing_slot, desired_slot) ==
    \/ existing_slot.capacity # desired_slot.capacity
    \/ existing_slot.resource_unit # desired_slot.resource_unit
    \/ existing_slot.blackout # desired_slot.blackout
    \/ existing_slot.notes # desired_slot.notes

\* update_item = desired_slot.copy(); update_item['id'] = existing_slot['id']
UpdateItem(desired_slot, id) ==
    [id |-> id, date |-> desired_slot.date, start_time |-> desired_slot.start_time,
     end_time |-> desired_slot.end_time, capacity |-> desired_slot.capacity,
     resource_unit |-> desired_slot.resource_unit, notes |-> desired_slot.notes,
     blackout |-> desired_slot.blackout]

\* diff_against_db(tenant_id, []) : lines 133-134
DiffEmpty(inputs) ==
    /\ dpc \in {"off", "done"}
    /\ \E t \in Tenants, desired \in {c[2] : c \in inputs} :
        /\ <<t, desired>> \in inputs
        /\ DiffEarlyReturn(desired)
        /\ dcall' = [NoDiff EXCEPT !.tenant_id = t, !.desired = desired,
                                   !.before = slots]
    /\ dpc' = "done"
    /\ UNCHANGED <<bookVars, pubVars, planVars, request>>

\* diff_against_db(tenant_id, desired): acquire a connection, fetch the rows
\* of the date range, build the lookup (lines 136-170)
DiffFetch(inputs) ==
    /\ dpc \in {"off", "done"}
    /\ \E t \in Tenants, desired \in {c[2] : c \in inputs} :
        /\ <<t, desired>> \in inputs
        /\ ~DiffEarlyReturn(desired)
        /\ \E existing_slots \in Lookups(FetchedRows(slots, t, desired)) :
              dcall' = [NoDiff EXCEPT !.tenant_id = t, !.desired = desired,
                                      !.existing_slots = existing_slots, !.i = 1,
                                      !.acquired = TRUE, !.reads = 1,
                                      !.before = slots]
    /\ dpc' = "classify"
    /\ UNCHANGED <<bookVars, pubVars, planVars, request>>

\* One turn of the classification loop (lines 173-198)
DiffClassify ==
    /\ dpc = "classify"
    /\ dcall.i <= Len(dcall.desired)
    /\ LET desired_slot == dcall.desired[dcall.i]
           found == {e \in dcall.existing_slots : LookupKey(e) = LookupKey(desired_slot)}
       IN IF found # {}
          THEN LET existing_slot == CHOOSE e \in found : TRUE
               IN IF NeedsUpdate(existing_slot, desired_slot)
                  THEN dcall' = [dcall EXCEPT
                                   !.update_list =
                                       Append(@, UpdateItem(desired_slot, existing_slot.id)),
                                   !.i = @ + 1]
                  ELSE dcall' = [dcall EXCEPT !.skip_list = Append(@, desired_slot),
                                              !.i = @ + 1]
          ELSE dcall' = [dcall EXCEPT !.create_list = Append(@, desired_slot),
                                      !.i = @ + 1]
    /\ UNCHANGED <<bookVars, pubVars, planVars, dpc, request>>

\* The loop has ended: return the three lists (lines 200-204)
DiffReturn ==
    /\ dpc = "classify"
    /\ dcall.i > Len(dcall.desired)
    /\ dpc' = "done"
    /\ UNCHANGED <<bookVars, pubVars, planVars, dcall, request>>

Bookers == {1, 2}

NoBooking ==
    [tenant_id |-> "t1", user_role |-> "admin", user_grower_id |-> "g1",
     slot_id |-> 0, grower_id |-> "g1", quantity |-> 0,
     slot_info |-> <<>>, status |-> 0]

\* No create_booking request is being served and nothing is booked.
BookOff ==
    /\ bookings = {}
    /\ domain_events = {}
    /\ slot_lock = {}
    /\ bpc = [b \in Bookers |-> "off"]
    /\ bcall = [b \in Bookers |-> NoBooking]

PubIdle(stores, indexes) ==
    /\ BookOff
    /\ slots \in stores
    /\ slots0 = slots
    /\ nextId = NextFree(slots)
    /\ uniqueIndex \in indexes
    /\ \A r1, r2 \in slots : r1 # r2 => ~IndexConflict(r1, {r2})
    /\ pc = [p \in Publishers |-> "idle"]
    /\ call = [p \in Publishers |-> NoCall]
    /\ ins = [p \in Publishers |-> {}]
    /\ upd = [p \in Publishers |-> {}]
    /\ last = NoLast

PubInit(stores, indexes) ==
    /\ PubIdle(stores, indexes)
    /\ PlanOff
    /\ DiffOff

vars == <<pubVars, planVars, diffVars, bookVars>>

Init == PubInit(InitStores, {"none"})

\* The calls made: tenant t1 publishes any plan, tenant t2 plans of
\* capacity 10.
SeqCalls ==
    {<<"t1", plan>> : plan \in Plans}
    \cup {<<"t2", plan>> :
            plan \in {q \in Plans : \A k \in 1..Len(q) : q[k].capacity = 10}}

\* One caller at a time (spec section 5).
Next ==
    \/ PublishEmpty(1, SeqCalls)
    \/ Begin(1, SeqCalls, MaxInserts)
    \/ UpdateStmt(1)
    \/ InsertStmt(1)
    \/ StmtFails(1, "idle")
    \/ Commit(1, "idle")

Spec == Init /\ [][Next]_vars

(***************************************************************************)
(* Two publishers of one tenant, each making one call in its own           *)
(* transaction                                                             *)
(***************************************************************************)
ConcTenants == {"t1"}
ConcStores == {slots_ \in InitStores : \A r \in slots_ : r.tenant_id \in ConcTenants}

\* Publisher 1 publishes capacity 10, publisher 2 capacity 15.
ConcCalls(p) ==
    {<<t, plan>> : t \in ConcTenants,
                   plan \in {q \in Plans :
                               /\ q # <<>>
                               /\ \A k \in 1..Len(q) :
                                     q[k].capacity = (IF p = 1 THEN 10 ELSE 15)}}

ConcInit == PubInit(ConcStores, {"none", "tenant_date_start"})

ConcNext ==
    \E p \in Publishers :
        \/ Begin(p, ConcCalls(p), 2 * MaxPlanLen)
        \/ UpdateStmt(p)
        \/ InsertStmt(p)
        \/ StmtFails(p, "ended")
        \/ Commit(p, "ended")

SpecConc == ConcInit /\ [][ConcNext]_vars

(***************************************************************************)
(* diff_against_db on a desired list and a table                           *)
(***************************************************************************)
DiffStores ==
    InitStores
    \cup { {Row(1, "t1", 18, PubWindow1, 10, "tons", FALSE, NULL),
            Row(2, "t1", 18, PubWindow2, 15, "kg", FALSE, "n"),
            Row(3, "t2", 18, PubWindow2, 15, "tons", FALSE, "n")},
           BulkMadeStore }

\* The desired lists differed: the plans, and the one-hour slot from 09:00.
DiffInputs ==
    {<<t, desired>> :
        t \in Tenants,
        desired \in Plans \cup {<<DesiredSlot(18, <<Clock(9, 0, 0), Clock(10, 0, 0)>>, f)>> :
                                  f \in PubFields}}

DiffInit == PubInit(DiffStores, {"none"})

DiffNext ==
    \/ DiffEmpty(DiffInputs)
    \/ DiffFetch(DiffInputs)
    \/ DiffClassify
    \/ DiffReturn

SpecDiff == DiffInit /\ [][DiffNext]_vars

(***************************************************************************)
(* A caller that holds a plan and calls publish_plan with it again each    *)
(* time the call raises, until it returns (spec section 5)                 *)
(***************************************************************************)
RetryInit ==
    /\ PubIdle(InitStores, {"none"})
    /\ template = EmptyDict
    /\ start_date = 0 /\ end_date = 0 /\ current_date = 0 /\ current_time = 0
    /\ desired_slots \in Plans \ {<<>>}
    /\ ppc = "done"
    /\ dpc = "off"
    /\ dcall = NoDiff
    /\ request \in {[NoRequest EXCEPT !.tenant_id = t, !.mode = "publish"] : t \in Tenants}

RetryNext ==
    \/ Begin(1, {<<request.tenant_id, desired_slots>>}, 2 * MaxPlanLen)
    \/ UpdateStmt(1)
    \/ InsertStmt(1)
    \/ StmtFails(1, "idle")
    \/ Commit(1, "ended")

SpecRetry == RetryInit /\ [][RetryNext]_vars

(***************************************************************************)
(* Claims about publish_plan                                               *)
(***************************************************************************)
PlanKey(t, slot) ==
    <<t, ParseDate(slot.date), ParseTime(slot.start_time), ParseTime(slot.end_time)>>

PlanKeys(t, plan) == {PlanKey(t, plan[k]) : k \in 1..Len(plan)}

DistinctKeys(plan) ==
    \A j, k \in 1..Len(plan) : PlanKey("t1", plan[j]) = PlanKey("t1", plan[k]) => j = k

Fields(x) ==
    [capacity |-> x.capacity, resource_unit |-> x.resource_unit,
     blackout |-> x.blackout, notes |-> x.notes]

\* The last slot of the plan with the given key.
LastWithKey(t, plan, key) ==
    plan[CHOOSE k \in 1..Len(plan) :
           /\ PlanKey(t, plan[k]) = key
           /\ \A j \in (k + 1)..Len(plan) : PlanKey(t, plan[j]) # key]

\* C1: a successful publish_plan that directly follows a successful
\* publish_plan of the same tenant and plan (distinct natural keys) returns
\* created = 0, updated = len(plan), skipped = 0 and leaves every row as the
\* first call left it.
C1_Idempotent ==
    (last.outcome = "returned" /\ last.repeat /\ DistinctKeys(last.plan))
    => /\ last.result = [created |-> 0, updated |-> Len(last.plan), skipped |-> 0]
       /\ slots = last.before

C1_Witness ==
    /\ last.outcome = "returned" /\ last.repeat /\ DistinctKeys(last.plan)
    /\ Len(last.plan) = 2
    /\ last.result.updated = 2
    /\ Cardinality(slots) > Cardinality(slots0)

\* C2: from a table without two rows of one natural key, publish_plan calls
\* run one at a time (any tenant, any plan, returning or raising) never
\* leave two rows with the same (tenant_id, date, start_time, end_time).
C2_KeysStayUnique == UniqueKeys(slots0) => UniqueKeys(slots)

C2_Witness ==
    /\ UniqueKeys(slots0) /\ slots0 # {}
    /\ last.outcome = "returned"
    /\ ~DistinctKeys(last.plan)
    /\ last.result.created = 1 /\ last.result.updated = 1

\* C3: when a statement of publish_plan fails, the caller gets the failure
\* and no counts, and the table is as it was before the call, whatever the
\* call had already updated or inserted.
C3_Atomic ==
    last.outcome = "raised" => (slots = last.before /\ last.result = NoCounts)

C3_Witness ==
    /\ last.outcome = "raised"
    /\ last.at = 2
    /\ last.wrote
    /\ last.before # {}

\* C4: no step of publish_plan removes a row or changes a row's id,
\* tenant_id, date, start_time or end_time.
C4_RowsStable ==
    [][\A r \in slots : \E r2 \in slots' : r2.id = r.id /\ NaturalKey(r2) = NaturalKey(r)]_vars

C4_Witness ==
    /\ last.outcome = "returned"
    /\ \E r \in slots0 : \E r2 \in slots :
          r2.id = r.id /\ NaturalKey(r2) = NaturalKey(r) /\ Fields(r2) # Fields(r)

\* C6: a successful publish_plan creates one row, with a fresh id and the
\* slot's key, for each key of the plan that had no row, counts those in
\* created and every other slot in updated, and leaves each key of the plan
\* with the fields of the plan's last slot for it.
C6_UpdateThenInsert ==
    (last.outcome = "returned" /\ last.acquired)
    => LET t == last.tenant_id
           keys == PlanKeys(t, last.plan)
           absent == {k \in keys : \A r \in last.before : NaturalKey(r) # k}
           fresh == {r \in slots : r.id \notin Ids(last.before)}
       IN /\ last.result.created = Cardinality(absent)
          /\ last.result.updated = Len(last.plan) - Cardinality(absent)
          /\ Cardinality(fresh) = Cardinality(absent)
          /\ {NaturalKey(r) : r \in fresh} = absent
          /\ Ids(slots) = Ids(last.before) \cup Ids(fresh)
          /\ \A r \in slots :
                NaturalKey(r) \in keys
                => Fields(r) = Fields(LastWithKey(t, last.plan, NaturalKey(r)))

C6_Witness ==
    /\ last.outcome = "returned"
    /\ Len(last.plan) = 2
    /\ \E r \in last.before : NaturalKey(r) = PlanKey(last.tenant_id, last.plan[1])
    /\ \A r \in last.before : NaturalKey(r) # PlanKey(last.tenant_id, last.plan[2])
    /\ last.result = [created |-> 1, updated |-> 1, skipped |-> 0]

\* C7: every successful publish_plan returns created + updated = len(plan)
\* and skipped = 0, also when the rows it matched already had the plan's
\* field values.
C7_CountsAddUp ==
    last.outcome = "returned"
    => /\ last.result.created + last.result.updated = Len(last.plan)
       /\ last.result.skipped = 0

C7_Witness ==
    /\ last.outcome = "returned"
    /\ ~last.repeat
    /\ last.result.updated = Len(last.plan)
    /\ Len(last.plan) > 0
    /\ slots = last.before

\* C8: publish_plan of an empty plan returns zeros, acquires no connection,
\* opens no transaction and leaves the table as it is.
C8_EmptyPlan ==
    (last.outcome = "returned" /\ last.plan = <<>>)
    => /\ last.result = [created |-> 0, updated |-> 0, skipped |-> 0]
       /\ ~last.acquired
       /\ slots = last.before

C8_Witness ==
    /\ last.outcome = "returned" /\ last.plan = <<>>
    /\ slots # {}
    /\ slots # slots0

\* C5 as claimed: with transaction isolation alone, two concurrent
\* publishers never commit two rows for one natural key.
C5_NoDoubleInsert ==
    UniqueKeys(slots0)
    => \A r1, r2 \in {r \in slots : r.id \notin Ids(slots0)} :
          NaturalKey(r1) = NaturalKey(r2) => r1 = r2

\* C5 as amended: with the store's unique index on the slot key, two
\* concurrent publishers never commit two rows for one natural key.
C5_NoDoubleInsertUnderIndex ==
    uniqueIndex # "none"
    => \A r1, r2 \in {r \in slots : r.id \notin Ids(slots0)} :
          NaturalKey(r1) = NaturalKey(r2) => r1 = r2

\* The race has happened under the index: publisher 2 found no row, the
\* other publisher has since committed its row for the key, and publisher
\* 2 now stands at its INSERT.
C5_Witness ==
    /\ uniqueIndex # "none"
    /\ pc[2] = "insert"
    /\ \E r \in slots :
          /\ r.id \notin Ids(slots0)
          /\ NaturalKey(r) = PlanKey(call[2].tenant_id, call[2].plan[call[2].i])

(***************************************************************************)
(* plan_slots on a template and a date range                               *)
(***************************************************************************)
MaxExceptions == 2

Monday9to10 ==
    [enabled |-> TRUE, start_time |-> <<9, 0>>, end_time |-> <<10, 0>>, capacity |-> 15]

WeekdayConfigs ==
    { [mon |-> Monday9to10],
      [mon |-> Monday9to10,
       tue |-> [enabled |-> FALSE, start_time |-> <<9, 0>>, end_time |-> <<10, 0>>]],
      [mon |-> [start_time |-> <<23, 0>>, end_time |-> <<23, 59>>, notes |-> NULL],
       tue |-> [end_time |-> <<8, 45>>, resource_unit |-> "kg"]] }

SlotLengths == {30, 45, 120, 1440}

ExceptionEntries ==
    { [date |-> IsoFormat(18), type |-> "blackout"],
      [date |-> IsoFormat(18), type |-> "override", start_time |-> <<14, 0>>,
       end_time |-> <<16, 0>>, capacity |-> 25],
      [date |-> IsoFormat(19), type |-> "override", start_time |-> <<9, 0>>,
       end_time |-> <<9, 30>>, notes |-> "o"],
      [date |-> IsoFormat(18), type |-> "holiday"],
      [type |-> "blackout"],
      [date |-> IsoFormat(18), type |-> "override", start_time |-> <<23, 0>>,
       end_time |-> <<23, 59>>, resource_unit |-> "kg"] }

Templates ==
    { [weekdays |-> w, slot_length_min |-> n, exceptions |-> x, default_capacity |-> 10,
       default_resource_unit |-> "tons", default_notes |-> ""] :
        w \in WeekdayConfigs, n \in SlotLengths,
        x \in SeqsUpTo(ExceptionEntries, MaxExceptions) }

PlanInit ==
    /\ template \in Templates
    /\ start_date \in {18, 19}
    /\ end_date \in {17, 18, 19}
    /\ current_date = start_date
    /\ current_time = 0
    /\ desired_slots = <<>>
    /\ ppc = "date_loop"
    /\ slots = {}
    /\ slots0 = {}
    /\ nextId = 1
    /\ uniqueIndex = "none"
    /\ pc = [p \in Publishers |-> "idle"]
    /\ call = [p \in Publishers |-> NoCall]
    /\ ins = [p \in Publishers |-> {}]
    /\ upd = [p \in Publishers |-> {}]
    /\ last = NoLast
    /\ DiffOff
    /\ BookOff

PlanNext ==
    \/ PlanSkipBlackout
    \/ PlanSkipDay
    \/ PlanStartDay
    \/ PlanEmitSlot
    \/ PlanEndDay
    \/ PlanReturn

SpecPlan == PlanInit /\ [][PlanNext]_vars

(***************************************************************************)
(* apply_template_preview (routers/slots.py lines 295-378): plan_slots,    *)
(* diff_against_db and, in publish mode, publish_plan                      *)
(***************************************************************************)
SampleSize == 10

\* diff_result[...][:10]
FirstSamples(list) ==
    SubSeq(list, 1, IF Len(list) < SampleSize THEN Len(list) ELSE SampleSize)

\* Variant: the handler goes on to publish_plan whatever the mode.
HandlerPublishesAlways(mode) == TRUE

\* Whether the handler goes past the preview return of lines 363-364 and
\* into the publish branch of line 367.
HandlerPublishes(mode) == ~(mode = "preview") /\ mode = "publish"

\* The call the handler makes to diff_against_db and to publish_plan
Handed == {<<request.tenant_id, desired_slots>>}

\* lines 304-308
ApplyForbidden ==
    /\ request.at = "received"
    /\ request.role # "admin"
    /\ request' = [request EXCEPT !.at = "forbidden"]
    /\ UNCHANGED <<bookVars, pubVars, planVars, dpc, dcall>>

\* lines 310-326
ApplyNotFound ==
    /\ request.at = "received"
    /\ request.role = "admin"
    /\ request.template_rows = <<>>
    /\ request' = [request EXCEPT !.at = "not_found"]
    /\ UNCHANGED <<bookVars, pubVars, planVars, dpc, dcall>>

\* lines 328-341, and lines 30-44 of plan_slots
ApplyPlan ==
    /\ request.at = "received"
    /\ request.role = "admin"
    /\ request.template_rows # <<>>
    /\ template' = request.template_rows[1]
    /\ start_date' = ParseDate(request.start_date)
    /\ end_date' = ParseDate(request.end_date)
    /\ current_date' = ParseDate(request.start_date)
    /\ desired_slots' = <<>>
    /\ ppc' = "date_loop"
    /\ request' = [request EXCEPT !.at = "running"]
    /\ UNCHANGED <<bookVars, pubVars, current_time, dpc, dcall>>

\* lines 343-345
ApplyDiffEmpty ==
    /\ request.at = "running" /\ ppc = "done" /\ dpc = "off"
    /\ DiffEmpty(Handed)

ApplyDiffFetch ==
    /\ request.at = "running" /\ ppc = "done" /\ dpc = "off"
    /\ DiffFetch(Handed)

\* lines 347-364
ApplyReturnPreview ==
    /\ request.at = "running" /\ dpc = "done"
    /\ ~HandlerPublishes(request.mode)
    /\ request' = [request EXCEPT
                     !.at = "returned",
                     !.result = [created |-> Len(dcall.create_list),
                                 updated |-> Len(dcall.update_list),
                                 skipped |-> Len(dcall.skip_list)],
                     !.samples = [create |-> FirstSamples(dcall.create_list),
                                  update |-> FirstSamples(dcall.update_list),
                                  skip |-> FirstSamples(dcall.skip_list)]]
    /\ UNCHANGED <<bookVars, pubVars, planVars, dpc, dcall>>

\* lines 366-368
ApplyPublishEmpty ==
    /\ request.at = "running" /\ dpc = "done"
    /\ HandlerPublishes(request.mode)
    /\ last.outcome = "none"
    /\ PublishEmpty(1, Handed)

ApplyPublish ==
    /\ request.at = "running" /\ dpc = "done"
    /\ HandlerPublishes(request.mode)
    /\ last.outcome = "none"
    /\ Begin(1, Handed, MaxInserts)

\* lines 370-375
ApplyReturnPublish ==
    /\ request.at = "running"
    /\ last.outcome = "returned"
    /\ request' = [request EXCEPT !.at = "returned", !.result = last.result,
                                  !.samples = NoSamples]
    /\ UNCHANGED <<bookVars, pubVars, planVars, dpc, dcall>>

\* publish_plan raised: the exception leaves the handler
ApplyRaise ==
    /\ request.at = "running"
    /\ last.outcome = "raised"
    /\ request' = [request EXCEPT !.at = "failed"]
    /\ UNCHANGED <<bookVars, pubVars, planVars, dpc, dcall>>

ApplyTemplates ==
    { [weekdays |-> [mon |-> Monday9to10], slot_length_min |-> n, exceptions |-> x,
       default_capacity |-> 10, default_resource_unit |-> "tons", default_notes |-> ""] :
        n \in {30, 45, 60},
        x \in {<<>>, <<[date |-> IsoFormat(18), type |-> "blackout"]>>} }

\* The tables a request finds.
ApplyStores == InitStores \cup {BulkMadeStore}

Requests ==
    { [tenant_id |-> t, role |-> r, mode |-> m, template_rows |-> rows,
       start_date |-> IsoFormat(18), end_date |-> IsoFormat(e), at |-> "received",
       result |-> NoCounts, samples |-> NoSamples] :
        t \in Tenants, r \in {"admin", "grower"}, m \in {"preview", "publish"},
        rows \in {<<>>} \cup {<<config>> : config \in ApplyTemplates},
        e \in {17, 18, 19} }

ApplyInit ==
    /\ PubIdle(ApplyStores, {"none"})
    /\ PlanOff
    /\ dpc = "off"
    /\ dcall = NoDiff
    /\ request \in Requests

ApplyNext ==
    \/ ApplyForbidden
    \/ ApplyNotFound
    \/ ApplyPlan
    \/ PlanNext
    \/ ApplyDiffEmpty
    \/ ApplyDiffFetch
    \/ DiffClassify
    \/ DiffReturn
    \/ ApplyReturnPreview
    \/ ApplyPublishEmpty
    \/ ApplyPublish
    \/ UpdateStmt(1)
    \/ InsertStmt(1)
    \/ StmtFails(1, "idle")
    \/ Commit(1, "idle")
    \/ ApplyReturnPublish
    \/ ApplyRaise

SpecApply == ApplyInit /\ [][ApplyNext]_vars

SlotKey(slot) == <<slot.date, slot.start_time, slot.end_time>>

\* C9: the list plan_slots builds never holds two slots with the same
\* (date, start_time, end_time), whatever the weekday schedules and the
\* exceptions list (several entries for one date included).
C9_NoDuplicateSlots ==
    \A j, k \in 1..Len(desired_slots) :
        SlotKey(desired_slots[j]) = SlotKey(desired_slots[k]) => j = k

ExceptionsOn(d) ==
    {k \in 1..Len(template.exceptions) :
        Get(template.exceptions[k], "date", NoDate) = IsoFormat(d)}

C9_Witness ==
    /\ ppc = "done"
    /\ Len(desired_slots) >= 3
    /\ Cardinality(ExceptionsOn(18)) = 2
    /\ \E k \in 1..Len(desired_slots) : desired_slots[k].date = IsoFormat(19)

\* C10: once plan_slots has returned, the list holds no slot for a date of
\* the range that has a blackout entry in the exceptions list, wherever
\* that entry stands in the list.
C10_BlackoutSuppresses ==
    ppc = "done"
    => \A d \in start_date..end_date :
          (\E k \in ExceptionsOn(d) : Get(template.exceptions[k], "type", NULL) = "blackout")
          => \A j \in 1..Len(desired_slots) : desired_slots[j].date # IsoFormat(d)

(***************************************************************************)
(* Claims about the day-schedule and the stepping of plan_slots            *)
(***************************************************************************)
\* The slots of the list for date d, in list order.
SlotsOn(d) == SelectSeq(desired_slots, LAMBDA slot : slot.date = IsoFormat(d))

HasType(d, type) ==
    \E k \in ExceptionsOn(d) : Get(template.exceptions[k], "type", NULL) = type

\* The first override entry of the exceptions list for date d.
FirstOverride(d) ==
    template.exceptions[
        CHOOSE k \in ExceptionsOn(d) :
            /\ Get(template.exceptions[k], "type", NULL) = "override"
            /\ \A j \in ExceptionsOn(d) :
                  Get(template.exceptions[j], "type", NULL) = "override" => k <= j]

\* A field of a day-schedule, or the template default when it is unset.
FieldOr(day_config, field, default) ==
    IF field \in DOMAIN day_config THEN day_config[field] ELSE default

\* C11: for a date with an override entry and no blackout entry, every slot
\* of the returned list for that date starts and ends inside the override's
\* start_time..end_time window and carries the override's capacity,
\* resource_unit and notes (the template defaults where the override leaves
\* them out).
C11_OverrideReplaces ==
    ppc = "done"
    => \A d \in start_date..end_date :
          (HasType(d, "override") /\ ~HasType(d, "blackout"))
          => LET o == FirstOverride(d)
                 ws == ParseTime(FieldOr(o, "start_time", <<8, 0>>))
                 we == ParseTime(FieldOr(o, "end_time", <<17, 0>>))
             IN \A k \in 1..Len(SlotsOn(d)) :
                   LET slot == SlotsOn(d)[k]
                   IN /\ ws <= ParseTime(slot.start_time)
                      /\ ParseTime(slot.start_time) <= ParseTime(slot.end_time)
                      /\ ParseTime(slot.end_time) <= we
                      /\ slot.capacity = FieldOr(o, "capacity", template.default_capacity)
                      /\ slot.resource_unit =
                            FieldOr(o, "resource_unit", template.default_resource_unit)
                      /\ slot.notes = FieldOr(o, "notes", template.default_notes)

\* The slots fixed-length stepping yields for a window s..e and length L.
SteppedWindows(s, e, L) ==
    IF e <= s THEN <<>>
    ELSE [k \in 1..((e - s) \div (60 * L)) |->
            <<StrfTime(s + (k - 1) * 60 * L), StrfTime(s + k * 60 * L)>>]

EmittedWindows(d) ==
    [k \in 1..Len(SlotsOn(d)) |-> <<SlotsOn(d)[k].start_time, SlotsOn(d)[k].end_time>>]

\* C12: for every date of the range that has a day-schedule, the returned
\* list holds for that date exactly the slots [s + k*L, s + (k+1)*L),
\* k = 0 .. floor((e - s)/L) - 1, in that order, and none when e <= s.
C12_FixedLengthStepping ==
    ppc = "done"
    => \A d \in start_date..end_date :
          LET day_config == DayConfig(template, d)
          IN (~IsBlackoutDay(template, d) /\ ~NoSlotsThatDay(day_config))
             => EmittedWindows(d) =
                   SteppedWindows(DayStart(day_config), DayEnd(day_config),
                                  template.slot_length_min)

\* C13: every slot of the list starts at or after its day's window start,
\* ends at or before the window's end and starts before it ends (no slot
\* runs across midnight).
C13_InsideWindowAndDay ==
    \A k \in 1..Len(desired_slots) :
        LET slot == desired_slots[k]
            day_config == DayConfig(template, ParseDate(slot.date))
        IN /\ DayStart(day_config) <= ParseTime(slot.start_time)
           /\ ParseTime(slot.start_time) < ParseTime(slot.end_time)
           /\ ParseTime(slot.end_time) <= DayEnd(day_config)

\* (date, start_time) of slot a is not after that of slot b.
NotAfter(a, b) ==
    \/ ParseDate(a.date) < ParseDate(b.date)
    \/ /\ ParseDate(a.date) = ParseDate(b.date)
       /\ ParseTime(a.start_time) <= ParseTime(b.start_time)

\* C14: the list plan_slots returns holds only slots dated within
\* start_date..end_date, in ascending order of (date, start_time), and is
\* empty when start_date > end_date.
C14_InRangeAndSorted ==
    ppc = "done"
    => /\ \A k \in 1..Len(desired_slots) :
             /\ start_date <= ParseDate(desired_slots[k].date)
             /\ ParseDate(desired_slots[k].date) <= end_date
       /\ \A j, k \in 1..Len(desired_slots) :
             j < k => NotAfter(desired_slots[j], desired_slots[k])
       /\ start_date > end_date => desired_slots = <<>>

C14_Witness ==
    /\ ppc = "done"
    /\ start_date = 18 /\ end_date = 19
    /\ Len(SlotsOn(18)) >= 2
    /\ Len(SlotsOn(19)) >= 1

\* C15: every slot of the list has blackout = false and the capacity,
\* resource_unit and notes its date's day-schedule sets, or the template
\* default for a field the day-schedule leaves unset.
C15_FieldsInherited ==
    \A k \in 1..Len(desired_slots) :
        LET slot == desired_slots[k]
            day_config == DayConfig(template, ParseDate(slot.date))
        IN /\ slot.blackout = FALSE
           /\ slot.capacity = FieldOr(day_config, "capacity", template.default_capacity)
           /\ slot.resource_unit =
                 FieldOr(day_config, "resource_unit", template.default_resource_unit)
           /\ slot.notes = FieldOr(day_config, "notes", template.default_notes)

C15_Witness ==
    /\ ppc = "done"
    /\ \E j, k \in 1..Len(desired_slots) :
          /\ desired_slots[j].capacity = 25
          /\ desired_slots[j].resource_unit = template.default_resource_unit
          /\ desired_slots[k].capacity = template.default_capacity
          /\ desired_slots[k].resource_unit = "kg"

\* An exceptions entry whose type is neither blackout nor override, or whose
\* date is no date of the range.
Malformed(exception) ==
    \/ Get(exception, "type", NULL) \notin {"blackout", "override"}
    \/ \A d \in start_date..end_date : Get(exception, "date", NoDate) # IsoFormat(d)

WithoutMalformed(tpl) ==
    [tpl EXCEPT !.exceptions = SelectSeq(tpl.exceptions, LAMBDA x : ~Malformed(x))]

\* C16: the list plan_slots returns is the list it returns for the same
\* template with the malformed exception entries removed.
C16_MalformedIgnored ==
    ppc = "done"
    => desired_slots = PlanSlotsFrom(WithoutMalformed(template), start_date, end_date)

C16_Witness ==
    /\ ppc = "done"
    /\ start_date = 18 /\ end_date = 19
    /\ Len(template.exceptions) = 2
    /\ Malformed(template.exceptions[1])
    /\ Get(template.exceptions[1], "date", NoDate) = IsoFormat(18)
    /\ template.exceptions[2] = [date |-> IsoFormat(18), type |-> "blackout"]
    /\ Len(desired_slots) > 0

(***************************************************************************)
(* Claims about diff_against_db                                            *)
(***************************************************************************)
\* The persisted rows of tenant t with the desired slot's date and times.
RowsFor(rows, t, slot) == {r \in rows : NaturalKey(r) = PlanKey(t, slot)}

\* The four mutable fields of the row equal the slot's, a stored NULL notes
\* counting as the empty string.
SameFields(r, slot) ==
    /\ r.capacity = slot.capacity
    /\ r.resource_unit = slot.resource_unit
    /\ r.blackout = slot.blackout
    /\ (IF r.notes = NULL THEN "" ELSE r.notes) = slot.notes

\* C17: over a table with one row for a natural key at most, the create
\* list is the desired slots no row of the tenant matches, the skip list
\* those whose row has the same four fields (stored NULL notes taken as ''),
\* the update list the others, each a copy of the desired slot with the
\* row's id; all three in the order of the desired list.
C17_Classification ==
    (dpc = "done" /\ UniqueKeys(dcall.before))
    => LET t == dcall.tenant_id
           rows == dcall.before
           to_update ==
               SelectSeq(dcall.desired,
                         LAMBDA slot : \E r \in RowsFor(rows, t, slot) : ~SameFields(r, slot))
       IN /\ dcall.create_list =
                SelectSeq(dcall.desired, LAMBDA slot : RowsFor(rows, t, slot) = {})
          /\ dcall.skip_list =
                SelectSeq(dcall.desired,
                          LAMBDA slot : \E r \in RowsFor(rows, t, slot) : SameFields(r, slot))
          /\ Len(dcall.update_list) = Len(to_update)
          /\ \A k \in 1..Len(to_update) :
                /\ [f \in DOMAIN to_update[k] |-> dcall.update_list[k][f]] = to_update[k]
                /\ DOMAIN dcall.update_list[k] = DOMAIN to_update[k] \cup {"id"}
                /\ \E r \in RowsFor(rows, t, to_update[k]) : r.id = dcall.update_list[k].id
          /\ \A k \in 1..Len(dcall.create_list) : "id" \notin DOMAIN dcall.create_list[k]
          /\ \A k \in 1..Len(dcall.skip_list) : "id" \notin DOMAIN dcall.skip_list[k]

C17_Witness ==
    /\ dpc = "done"
    /\ UniqueKeys(dcall.before)
    /\ Len(dcall.skip_list) = 1
    /\ Len(dcall.update_list) = 1
    /\ \E r \in RowsFor(dcall.before, dcall.tenant_id, dcall.skip_list[1]) : r.notes = NULL

\* C19: diff_against_db of an empty desired list returns three empty lists
\* and has acquired no connection and issued no read.
C19_EmptyDesired ==
    (dpc = "done" /\ dcall.desired = <<>>)
    => /\ dcall.create_list = <<>>
       /\ dcall.update_list = <<>>
       /\ dcall.skip_list = <<>>
       /\ ~dcall.acquired
       /\ dcall.reads = 0

C19_Witness ==
    /\ dpc = "done"
    /\ dcall.desired = <<>>
    /\ \E r \in slots : r.tenant_id = dcall.tenant_id

\* C18: while a request in preview mode is served, and after it, the table
\* holds the rows it held before, with the same ids and field values, and
\* no transaction is open; and from the start of diff_against_db until a
\* publish_plan begins the table is as diff_against_db found it.
C18_PreviewReadOnly ==
    /\ (request.at # "off" /\ request.mode = "preview")
       => /\ slots = slots0
          /\ pc[1] = "idle" /\ ins[1] = {} /\ upd[1] = {}
          /\ nextId = NextFree(slots0)
    /\ (dpc # "off" /\ pc[1] = "idle" /\ last.outcome = "none")
       => slots = dcall.before

C18_Witness ==
    /\ request.at = "returned"
    /\ request.mode = "preview"
    /\ request.result = [created |-> 1, updated |-> 1, skipped |-> 0]
    /\ dcall.acquired
    /\ slots # {}

\* C20: when publish_plan, called again with the same plan after each
\* failure, at last returns, the table is what one successful call would
\* have made of the original table: every original row is there with its id
\* and key, untouched unless its key is in the plan; each key of the plan
\* that had no row has exactly one new row; every row of a key of the plan
\* has the fields of the plan's last slot for the key; and there is no
\* other row.
C20_RetrySafe ==
    last.outcome = "returned"
    => LET t == last.tenant_id
           keys == PlanKeys(t, last.plan)
           absent == {k \in keys : \A r \in slots0 : NaturalKey(r) # k}
       IN /\ \A r \in slots0 :
                \E r2 \in slots :
                    /\ r2.id = r.id
                    /\ NaturalKey(r2) = NaturalKey(r)
                    /\ NaturalKey(r) \notin keys => r2 = r
          /\ \A k \in absent : Cardinality({r \in slots : NaturalKey(r) = k}) = 1
          /\ Cardinality(slots) = Cardinality(slots0) + Cardinality(absent)
          /\ \A r \in slots :
                NaturalKey(r) \in keys
                => Fields(r) = Fields(LastWithKey(t, last.plan, NaturalKey(r)))

\* The call has returned after an attempt that had inserted a row failed,
\* and it has both created a row and updated one.
C20_Witness ==
    /\ last.outcome = "returned"
    /\ last.result.created >= 1
    /\ last.result.updated >= 1
    /\ nextId - NextFree(slots0) > Cardinality({r \in slots : r.id \notin Ids(slots0)})

(***************************************************************************)
(* Claims about apply_template_preview                                     *)
(***************************************************************************)
\* C21: a request whose start_date is after its end_date never gets as far
\* as plan_slots, reads no diff, publishes nothing and is not answered with
\* a result.
C21_RangeValidated ==
    (request.at # "off" /\ ParseDate(request.start_date) > ParseDate(request.end_date))
    => /\ request.at \notin {"running", "returned"}
       /\ ppc = "off"
       /\ dpc = "off"
       /\ pc[1] = "idle"

(***************************************************************************)
(* create_booking (routers/bookings.py lines 42-163), each request served  *)
(* on its own connection                                                   *)
(***************************************************************************)
Quantities == {4, 7}

RECURSIVE SumQuantity(_)
SumQuantity(rows) ==
    IF rows = {} THEN 0
    ELSE LET r == CHOOSE x \in rows : TRUE
         IN r.quantity + SumQuantity(rows \ {r})

\* COALESCE(SUM(CASE WHEN b.status = 'confirmed' THEN b.quantity ELSE 0 END), 0)
Booked(slot_id) ==
    SumQuantity({b \in bookings : b.slot_id = slot_id /\ b.status = "confirmed"})

\* The rows capacity_check_query returns (lines 62-71)
CapacityCheck(slot_id, tenant_id) ==
    LET found == {s \in slots : s.id = slot_id /\ s.tenant_id = tenant_id}
    IN IF found = {} THEN <<>>
       ELSE LET s == CHOOSE x \in found : TRUE
            IN <<[capacity |-> s.capacity, booked |-> Booked(s.id),
                  blackout |-> s.blackout, date |-> s.date,
                  start_time |-> s.start_time, end_time |-> s.end_time]>>

\* if (booked + requested_quantity) > capacity  (line 97)
Insufficient(slot_info, quantity) == slot_info.booked + quantity > slot_info.capacity

\* A request arrives (lines 43-50)
BookReceive(b) ==
    /\ bpc[b] = "off"
    /\ \E role \in {"admin", "grower"}, grower_id \in {"g1", "g2"},
          slot_id \in {1, 2, 9}, quantity \in Quantities :
          bcall' = [bcall EXCEPT ![b] =
                      [NoBooking EXCEPT !.user_role = role, !.grower_id = grower_id,
                                        !.slot_id = slot_id, !.quantity = quantity]]
    /\ bpc' = [bpc EXCEPT ![b] = "received"]
    /\ UNCHANGED <<pubVars, planVars, diffVars, bookings, domain_events, slot_lock>>

\* lines 52-57
BookForbidden(b) ==
    /\ bpc[b] = "received"
    /\ bcall[b].user_role = "grower" /\ bcall[b].user_grower_id # bcall[b].grower_id
    /\ bcall' = [bcall EXCEPT ![b].status = 403]
    /\ bpc' = [bpc EXCEPT ![b] = "done"]
    /\ UNCHANGED <<pubVars, planVars, diffVars, bookings, domain_events, slot_lock>>

\* The first execute_transaction (lines 80-84; db.py lines 52-56): the
\* transaction begins and runs SELECT ... FOR UPDATE, waiting while another
\* transaction holds the lock on the row.
BookSelectForUpdate(b) ==
    /\ bpc[b] = "received"
    /\ ~(bcall[b].user_role = "grower" /\ bcall[b].user_grower_id # bcall[b].grower_id)
    /\ LET rows == CapacityCheck(bcall[b].slot_id, bcall[b].tenant_id)
       IN /\ rows # <<>> => \A q \in Bookers : <<bcall[b].slot_id, q>> \notin slot_lock
          /\ slot_lock' = IF rows = <<>> THEN slot_lock
                          ELSE slot_lock \cup {<<bcall[b].slot_id, b>>}
          /\ bcall' = [bcall EXCEPT ![b].slot_info = rows]
    /\ bpc' = [bpc EXCEPT ![b] = "selected"]
    /\ UNCHANGED <<pubVars, planVars, diffVars, bookings, domain_events>>

\* The first transaction is left: it commits and its lock is released
\* (db.py lines 53, 58).
BookCheckCommit(b) ==
    /\ bpc[b] = "selected"
    /\ slot_lock' = {l \in slot_lock : l[2] # b}
    /\ bpc' = [bpc EXCEPT ![b] = "decide"]
    /\ UNCHANGED <<pubVars, planVars, diffVars, bookings, domain_events, bcall>>

\* lines 85-88
BookNotFound(b) ==
    /\ bpc[b] = "decide"
    /\ bcall[b].slot_info = <<>>
    /\ bcall' = [bcall EXCEPT ![b].status = 404]
    /\ bpc' = [bpc EXCEPT ![b] = "done"]
    /\ UNCHANGED <<pubVars, planVars, diffVars, bookings, domain_events, slot_lock>>

\* lines 90-91
BookBlackedOut(b) ==
    /\ bpc[b] = "decide"
    /\ bcall[b].slot_info # <<>>
    /\ bcall[b].slot_info[1].blackout
    /\ bcall' = [bcall EXCEPT ![b].status = 403]
    /\ bpc' = [bpc EXCEPT ![b] = "done"]
    /\ UNCHANGED <<pubVars, planVars, diffVars, bookings, domain_events, slot_lock>>

\* lines 93-101
BookInsufficient(b) ==
    /\ bpc[b] = "decide"
    /\ bcall[b].slot_info # <<>>
    /\ ~bcall[b].slot_info[1].blackout
    /\ Insufficient(bcall[b].slot_info[1], bcall[b].quantity)
    /\ bcall' = [bcall EXCEPT ![b].status = 409]
    /\ bpc' = [bpc EXCEPT ![b] = "done"]
    /\ UNCHANGED <<pubVars, planVars, diffVars, bookings, domain_events, slot_lock>>

\* The second execute_transaction (lines 103-115): INSERT INTO bookings,
\* commit.
BookInsert(b) ==
    /\ bpc[b] = "decide"
    /\ bcall[b].slot_info # <<>>
    /\ ~bcall[b].slot_info[1].blackout
    /\ ~Insufficient(bcall[b].slot_info[1], bcall[b].quantity)
    /\ bookings' = bookings \cup
          {[id |-> Cardinality(bookings) + 1, slot_id |-> bcall[b].slot_id,
            tenant_id |-> bcall[b].tenant_id, grower_id |-> bcall[b].grower_id,
            quantity |-> bcall[b].quantity, status |-> "confirmed"]}
    /\ bpc' = [bpc EXCEPT ![b] = "inserted"]
    /\ UNCHANGED <<pubVars, planVars, diffVars, domain_events, slot_lock, bcall>>

\* emit_domain_event, the details query and the response (lines 117-158)
BookEmitEvent(b) ==
    /\ bpc[b] = "inserted"
    /\ domain_events' = domain_events \cup
          {[event_type |-> "BOOKING_CREATED", tenant_id |-> bcall[b].tenant_id,
            slot_id |-> bcall[b].slot_id, quantity |-> bcall[b].quantity, by |-> b]}
    /\ bcall' = [bcall EXCEPT ![b].status = 200]
    /\ bpc' = [bpc EXCEPT ![b] = "done"]
    /\ UNCHANGED <<pubVars, planVars, diffVars, bookings, slot_lock>>

BookStores ==
    { {Row(1, "t1", 18, PubWindow1, 10, "tons", FALSE, ""),
       Row(2, "t1", 18, PubWindow2, 10, "tons", TRUE, "")} }

BookInit == PubInit(BookStores, {"none"})

BookNext ==
    \E b \in Bookers :
        \/ BookReceive(b)
        \/ BookForbidden(b)
        \/ BookSelectForUpdate(b)
        \/ BookCheckCommit(b)
        \/ BookNotFound(b)
        \/ BookBlackedOut(b)
        \/ BookInsufficient(b)
        \/ BookInsert(b)
        \/ BookEmitEvent(b)

SpecBook == BookInit /\ [][BookNext]_vars

\* C22: the quantities of the confirmed bookings of a slot never add up to
\* more than the slot's capacity, however concurrent create_booking
\* requests interleave.
C22_CapacityNotExceeded ==
    \A s \in slots : Booked(s.id) <= s.capacity

(***************************************************************************)
(* Claims about publish_plan over rows that share a natural key            *)
(***************************************************************************)
\* The positions of the plan whose UPDATE finds a row: the key had a row
\* before the call, or an earlier position of the plan has the key.
Updating(t, plan, before) ==
    {k \in 1..Len(plan) :
        \/ \E r \in before : NaturalKey(r) = PlanKey(t, plan[k])
        \/ \E j \in 1..(k - 1) : PlanKey(t, plan[j]) = PlanKey(t, plan[k])}

\* C23: when two or more rows had the natural key of a plan slot before a
\* successful publish_plan, all of them have the fields of the plan's last
\* slot for the key afterwards, no row was inserted for the key, and
\* updated counts one for each such slot of the plan, not one for each row.
C23_AllMatchingRowsUpdated ==
    (last.outcome = "returned" /\ last.acquired)
    => LET t == last.tenant_id
       IN /\ \A key \in PlanKeys(t, last.plan) :
                LET rows == {r \in last.before : NaturalKey(r) = key}
                IN Cardinality(rows) >= 2
                   => /\ \A r \in rows :
                            \E r2 \in slots :
                               /\ r2.id = r.id
                               /\ Fields(r2) = Fields(LastWithKey(t, last.plan, key))
                      /\ Ids({r \in slots : NaturalKey(r) = key}) = Ids(rows)
          /\ last.result.updated = Cardinality(Updating(t, last.plan, last.before))
          /\ last.result.created + last.result.updated = Len(last.plan)

C23_Witness ==
    /\ last.outcome = "returned"
    /\ Len(last.plan) = 1
    /\ last.result.updated = 1
    /\ LET rows == {r \in last.before :
                      NaturalKey(r) = PlanKey(last.tenant_id, last.plan[1])}
       IN /\ Cardinality(rows) = 2
          /\ \A r \in rows : Fields(r) # Fields(last.plan[1])
          /\ \A r \in rows : \E r2 \in slots : r2.id = r.id /\ r2 # r

(***************************************************************************)
(* Two publishers over a table with the unique index on the natural key    *)
(***************************************************************************)
ConcKeyInit == PubInit(ConcStores, {"natural_key"})

SpecConcKey == ConcKeyInit /\ [][ConcNext]_vars

\* publish_plan run by itself on a table: each slot in turn updates the
\* rows with its key, or adds a row when there is none (lines 232-274).
RECURSIVE PublishAlone(_, _, _, _, _)
PublishAlone(rows, tenant_id, plan, k, id) ==
    IF k > Len(plan) THEN rows
    ELSE LET matched == {r \in rows : KeyMatches(r, tenant_id, plan[k])}
         IN IF RowsUpdated(matched) = 0
            THEN PublishAlone(rows \cup {NewRow(id, tenant_id, plan[k])},
                              tenant_id, plan, k + 1, id + 1)
            ELSE PublishAlone((rows \ matched)
                                \cup {SetFields(r, plan[k]) : r \in matched},
                              tenant_id, plan, k + 1, id)

\* A table with the identifiers drawn since `old' left out of the
\* comparison (gen_random_uuid() gives no identifier twice).
SameButNewIds(rows, old) ==
    {[r EXCEPT !.id = IF r.id \in Ids(old) THEN r.id ELSE 0] : r \in rows}

\* C24: under the unique index on the natural key the table never holds two
\* rows of one key; a publisher whose statement fails leaves the table as it
\* was, and a publisher that commits changes the table exactly as its call
\* run by itself on the table of that moment would, so that the committed
\* table is always that of the committed calls in the order of their commits.
C24_SerialUnderUniqueKey ==
    [][/\ UniqueKeys(slots')
       /\ \A p \in Publishers :
            /\ (pc[p] \in {"update", "insert"} /\ pc'[p] = "ended")
               => slots' = slots
            /\ (pc[p] = "commit" /\ pc'[p] = "ended")
               => /\ SameButNewIds(slots', slots)
                     = SameButNewIds(PublishAlone(slots, call[p].tenant_id,
                                                  call[p].plan, 1, nextId), slots)
                  /\ Cardinality(slots')
                     = Cardinality(PublishAlone(slots, call[p].tenant_id,
                                                call[p].plan, 1, nextId))]_vars

\* Both publishers wrote for one key; the second one's insert met the row
\* the first had committed and its transaction was rolled back.
C24_Witness ==
    /\ uniqueIndex = "natural_key"
    /\ \A p \in Publishers : pc[p] = "ended"
    /\ last.outcome = "raised"
    /\ last.wrote
    /\ last.at = Len(last.plan)
    /\ slots # slots0
    /\ \E r \in slots : r.id \notin Ids(slots0)
                        /\ NaturalKey(r) \in PlanKeys(last.tenant_id, last.plan)
                        /\ r.capacity # last.plan[1].capacity

(***************************************************************************)
(* Claims about the tenant of the rows read and written                    *)
(***************************************************************************)
OwnRows(rows, t) == {r \in rows : r.tenant_id = t}
OtherRows(rows, t) == {r \in rows : r.tenant_id # t}

\* C25: a request of tenant T writes rows of T only, and the rows of the
\* other tenants stay as they were, also when another tenant has a row of
\* the same date and times; diff_against_db looks at rows of T only, so the
\* create list is the desired slots T has no row for and every update item
\* carries the id of a row of T, whatever the other tenants hold.
C25_TenantIsolation ==
    /\ (request.at # "off")
       => /\ OtherRows(slots, request.tenant_id) = OtherRows(slots0, request.tenant_id)
          /\ OtherRows(ins[1] \cup upd[1], request.tenant_id) = {}
          /\ Active(1) => call[1].tenant_id = request.tenant_id
    /\ (dpc = "done")
       => LET own == OwnRows(dcall.before, dcall.tenant_id)
          IN /\ dcall.tenant_id = request.tenant_id
             /\ dcall.existing_slots \subseteq {ExistingSlot(r) : r \in own}
             /\ dcall.create_list =
                   SelectSeq(dcall.desired,
                             LAMBDA slot : \A r \in own :
                                LookupKey(ExistingSlot(r)) # LookupKey(slot))
             /\ \A k \in 1..Len(dcall.update_list) :
                   dcall.update_list[k].id \in Ids(own)

\* Another tenant holds a row with the date and times of a slot the tenant of
\* the request has no row for: the slot was classified create and published
\* as a new row.
C25_Witness ==
    /\ request.at = "returned"
    /\ request.mode = "publish"
    /\ dpc = "done"
    /\ \E k \in 1..Len(dcall.create_list) :
          /\ \E r \in OtherRows(slots0, request.tenant_id) :
                LookupKey(ExistingSlot(r)) = LookupKey(dcall.create_list[k])
          /\ \E r \in OwnRows(slots, request.tenant_id) :
                /\ r.id \notin Ids(slots0)
                /\ LookupKey(ExistingSlot(r)) = LookupKey(dcall.create_list[k])

(***************************************************************************)
(* Claims about the rows a publish leaves alone                            *)
(***************************************************************************)
KeysOf(rows) == {NaturalKey(r) : r \in rows}

\* C26: when a publish-mode request has returned, every row whose natural
\* key is not in the plan is in the table as it was, no row has been
\* deleted, and the natural keys of the tenant's rows are the keys it had
\* before together with the keys of the plan.
C26_OtherKeysUntouched ==
    (request.at = "returned" /\ request.mode = "publish")
    => LET t == request.tenant_id
           planned == PlanKeys(t, desired_slots)
       IN /\ {r \in slots : NaturalKey(r) \notin planned}
             = {r \in slots0 : NaturalKey(r) \notin planned}
          /\ Ids(slots0) \subseteq Ids(slots)
          /\ KeysOf(OwnRows(slots, t)) = KeysOf(OwnRows(slots0, t)) \cup planned

\* The template no longer produces a slot the tenant has a row for (the
\* slot length changed): the row is still there, with fields that differ
\* from the template's, next to the new row.
C26_Witness ==
    /\ request.at = "returned"
    /\ request.mode = "publish"
    /\ \E r \in OwnRows(slots0, request.tenant_id) :
          /\ r.date = start_date
          /\ NaturalKey(r) \notin PlanKeys(request.tenant_id, desired_slots)
          /\ r.capacity # template.default_capacity
          /\ r \in slots
    /\ last.result.created >= 1

(***************************************************************************)
(* plan_slots, then publish_plan of the plan (called again when it         *)
(* raises), then diff_against_db of the same plan                          *)
(***************************************************************************)
FixTemplates ==
    { [weekdays |-> w, slot_length_min |-> n, exceptions |-> x, default_capacity |-> 10,
       default_resource_unit |-> "tons", default_notes |-> notes] :
        w \in WeekdayConfigs, n \in {30, 45}, notes \in {"", NULL},
        x \in {<<>>, <<[date |-> IsoFormat(19), type |-> "blackout"]>>} }

FixInit ==
    /\ PubIdle(InitStores, {"none"})
    /\ template \in FixTemplates
    /\ start_date = 18
    /\ end_date \in {17, 18, 19}
    /\ current_date = start_date
    /\ current_time = 0
    /\ desired_slots = <<>>
    /\ ppc = "date_loop"
    /\ dpc = "off"
    /\ dcall = NoDiff
    /\ request \in {[NoRequest EXCEPT !.tenant_id = t, !.mode = "publish"] : t \in Tenants}

FixPublishEmpty ==
    /\ ppc = "done" /\ dpc = "off"
    /\ last.outcome = "none"
    /\ PublishEmpty(1, Handed)

FixPublish ==
    /\ ppc = "done" /\ dpc = "off"
    /\ last.outcome # "returned"
    /\ Begin(1, Handed, 2 * MaxInserts)

FixDiffEmpty ==
    /\ last.outcome = "returned" /\ dpc = "off"
    /\ DiffEmpty(Handed)

FixDiffFetch ==
    /\ last.outcome = "returned" /\ dpc = "off"
    /\ DiffFetch(Handed)

FixNext ==
    \/ PlanNext
    \/ FixPublishEmpty
    \/ FixPublish
    \/ UpdateStmt(1)
    \/ InsertStmt(1)
    \/ StmtFails(1, "idle")
    \/ Commit(1, "idle")
    \/ FixDiffEmpty
    \/ FixDiffFetch
    \/ DiffClassify
    \/ DiffReturn

SpecFix == FixInit /\ [][FixNext]_vars

\* C27: over a table with one row for a natural key at most, when
\* publish_plan of the plan plan_slots made has returned and
\* diff_against_db of the same plan has then run, the create list and the
\* update list are empty and the skip list is the plan.
C27_DiffFixpoint ==
    (dpc = "done" /\ last.outcome = "returned" /\ UniqueKeys(slots0))
    => /\ dcall.create_list = <<>>
       /\ dcall.update_list = <<>>
       /\ dcall.skip_list = desired_slots

(***************************************************************************)
(* Claims about the counts of a preview and of a publish                   *)
(***************************************************************************)
\* An update item without the id it carries.
WithoutId(item) == [f \in DOMAIN item \ {"id"} |-> item[f]]

\* The slots of the list, in the order of the desired list.
InDesiredOrder(desired, list) ==
    SelectSeq(desired, LAMBDA slot : \E k \in 1..Len(list) : list[k] = slot) = list

\* C28: over a table with one row for a natural key at most, the request
\* differs the plan the same way in both modes; a preview reports the
\* lengths of the three lists, and a publish of the same plan on the same
\* table returns created equal to the length of the create list and updated
\* equal to the lengths of the update and skip lists together.  The three
\* lists hold every desired slot once, each list in the desired order.
C28_PreviewPredictsPublish ==
    (request.at = "returned" /\ UniqueKeys(slots0))
    => LET update_slots == [k \in 1..Len(dcall.update_list) |->
                               WithoutId(dcall.update_list[k])]
       IN /\ dcall.desired = desired_slots
          /\ dcall.before = slots0
          /\ Len(dcall.create_list) + Len(dcall.update_list) + Len(dcall.skip_list)
             = Len(desired_slots)
          /\ InDesiredOrder(desired_slots, dcall.create_list)
          /\ InDesiredOrder(desired_slots, update_slots)
          /\ InDesiredOrder(desired_slots, dcall.skip_list)
          /\ request.mode = "preview"
             => request.result = [created |-> Len(dcall.create_list),
                                  updated |-> Len(dcall.update_list),
                                  skipped |-> Len(dcall.skip_list)]
          /\ request.mode = "publish"
             => /\ request.result.created = Len(dcall.create_list)
                /\ request.result.updated
                   = Len(dcall.update_list) + Len(dcall.skip_list)

(***************************************************************************)
(* Claims about a plan that names one natural key more than once           *)
(***************************************************************************)
\* The positions of the plan that hold the key.
Occurrences(t, plan, key) == {k \in 1..Len(plan) : PlanKey(t, plan[k]) = key}

\* The keys of the plan that had no row before the call.
NewKeys(t, plan, before) == PlanKeys(t, plan) \ KeysOf(before)

\* C29: when the plan holds a natural key twice or more and the table had
\* no row of it, the transaction never holds two rows of the key; after the
\* commit the table has exactly one row of the key, a new one, with the
\* fields of the key's last slot in the plan; created counts the key once
\* and updated counts each of its later occurrences.
C29_RepeatedKeyOneRow ==
    /\ \A key \in KeysOf(ins[1]) :
          (Active(1) /\ key \notin KeysOf(call[1].before))
          => Cardinality({r \in View(1) : NaturalKey(r) = key}) = 1
    /\ (last.outcome = "returned" /\ last.acquired)
       => LET t == last.tenant_id
          IN /\ \A key \in NewKeys(t, last.plan, last.before) :
                   Cardinality(Occurrences(t, last.plan, key)) >= 2
                   => \E r \in slots :
                         /\ {x \in slots : NaturalKey(x) = key} = {r}
                         /\ r.id \notin Ids(last.before)
                         /\ Fields(r) = Fields(LastWithKey(t, last.plan, key))
             /\ last.result.created = Cardinality(NewKeys(t, last.plan, last.before))
             /\ last.result.updated
                = Len(last.plan) - Cardinality(NewKeys(t, last.plan, last.before))

\* Both slots of the plan have one key, with different fields, and the table
\* had no row of it: one row was inserted and then updated.
C29_Witness ==
    /\ last.outcome = "returned"
    /\ Len(last.plan) = 2
    /\ PlanKey(last.tenant_id, last.plan[1]) = PlanKey(last.tenant_id, last.plan[2])
    /\ Fields(last.plan[1]) # Fields(last.plan[2])
    /\ NewKeys(last.tenant_id, last.plan, last.before) # {}
    /\ last.result = [created |-> 1, updated |-> 1, skipped |-> 0]
    /\ \E r \in slots : /\ r.id \notin Ids(last.before)
                        /\ Fields(r) = Fields(last.plan[2])

(***************************************************************************)
(* plan_slots run to its end: once called it keeps taking steps (it has    *)
(* no await and nothing to wait for)                                       *)
(***************************************************************************)
\* Day-schedules whose window ends at or before its start, next to the
\* others.
TermWeekdayConfigs ==
    WeekdayConfigs
    \cup { [mon |-> [start_time |-> <<10, 0>>, end_time |-> <<9, 0>>],
            tue |-> [start_time |-> <<9, 0>>, end_time |-> <<9, 0>>]] }

TermExceptionEntries ==
    { [date |-> IsoFormat(18), type |-> "blackout"],
      [date |-> IsoFormat(19), type |-> "override", start_time |-> <<23, 0>>,
       end_time |-> <<22, 0>>] }

TermTemplates ==
    { [weekdays |-> w, slot_length_min |-> n, exceptions |-> x, default_capacity |-> 10,
       default_resource_unit |-> "tons", default_notes |-> ""] :
        w \in TermWeekdayConfigs, n \in SlotLengths \cup {1},
        x \in SeqsUpTo(TermExceptionEntries, MaxExceptions) }

TermInit ==
    /\ PubIdle({{}}, {"none"})
    /\ DiffOff
    /\ template \in TermTemplates
    /\ start_date \in {18, 19}
    /\ end_date \in {17, 18, 19}
    /\ current_date = start_date
    /\ current_time = 0
    /\ desired_slots = <<>>
    /\ ppc = "date_loop"

SpecPlanFair == TermInit /\ [][PlanNext]_vars /\ WF_vars(PlanNext)

\* C30: plan_slots returns in the end; until then every pass of the inner
\* loop moves the cursor forward and every pass of the outer loop, whichever
\* way it takes, moves the date forward by one day.
C30_Terminates ==
    /\ <>(ppc = "done")
    /\ [][/\ (ppc = "time_loop" /\ ppc' = "time_loop") => current_time' > current_time
          /\ (ppc' = "date_loop") => current_date' = current_date + 1]_vars

\* plan_slots has returned a list in which a slot's step passed midnight.
C30_Witness ==
    /\ ppc = "done"
    /\ Len(desired_slots) >= 2
    /\ \E k \in 1..Len(desired_slots) :
          ParseTime(desired_slots[k].end_time) <= ParseTime(desired_slots[k].start_time)

====
